---- MODULE Spec2Model ----
(***************************************************************************)
(* je - JSON Environment Builder.                                          *)
(*                                                                         *)
(* A model of buildEnv / escapeEnvValue (src/src/env-builder.ts),          *)
(* loadConfig (src/src/config.ts) and findGitRoot (src/src/config.ts,      *)
(* the git.ts part).  Strings are sequences of one-character strings, a    *)
(* JavaScript object is the sequence of its own <<key, value>> properties  *)
(* in creation order, a path is the sequence of its segments.              *)
(***************************************************************************)
EXTENDS Integers, Sequences, FiniteSets, TLC

\* ------------------------------------------------------------------------
\* Bounds of the model
\* ------------------------------------------------------------------------
\* largest number of variables written in one section of the config file
MaxVars == 2
\* the same, for the files buildEnv is called on repeatedly in SpecRepeat
MaxRepeatVars == 1
\* longest value handed to escapeEnvValue in SpecEscape
MaxValueLen == 3
\* depth of the deepest directory of the hierarchy in SpecGit
MaxDepth == 3
\* most variables written in one section of the file in SpecSections
MaxSectionVars == 1
\* longest string or array written in the place of a section in SpecShapes
MaxShapeLen == 2
\* the same, for the hierarchy findConfigFile is called in in SpecLocate
MaxLocateDepth == 2
\* the same, for the hierarchy processCli is run in in SpecCli
MaxCliDepth == 0

\* ------------------------------------------------------------------------
\* State
\* ------------------------------------------------------------------------
VARIABLES
  file,         \* content of the config file
  environment,  \* buildEnv: the environment argument
  pc,           \* buildEnv: "idle", "loading", "loaded", "returned", "thrown"
  config,       \* buildEnv: the object loadConfig resolved to
  envVars,      \* buildEnv: the merged object
  result,       \* buildEnv: the text returned or the error thrown
  outcomes,     \* the <<environment, result>> of the calls made before
  value,        \* escapeEnvValue: the argument
  escPc,        \* escapeEnvValue: "idle", "called", "returned"
  rendered,     \* escapeEnvValue: the string returned
  gitEntry,     \* for each directory, the kind of its `.git` entry
  startDir,     \* findGitRoot: the argument
  currentDir,   \* findGitRoot: the candidate directory
  gitPc,        \* findGitRoot: "idle", "searching", "returned", "thrown"
  gitResult,    \* findGitRoot: the directory returned or the error thrown
  examined,     \* findGitRoot: the directories whose `.git` was looked up
  disk,         \* the directories holding env.jsonc and .je.jsonc, and
                \* whether the file at the explicit path exists
  cwd,          \* Deno.cwd()
  locPc,        \* findConfigFile: "idle", "root", "checking", "returned", "thrown"
  locResult,    \* findConfigFile: the path returned or the error thrown
  args,         \* processCli: the parsed arguments
  cliPc,        \* processCli: "idle", "locating", "building", "done"
  configPath,   \* the path buildEnv is called with
  caught,       \* processCli: the error its catch clause received
  stdout,       \* what console.log wrote, one element for each call
  stderr,       \* what console.error wrote, one element for each call
  exitCode,     \* the status Deno.exit was called with, "none" if it was not
  reads         \* the paths Deno.readTextFile was called with in this call

buildVars == <<file, environment, pc, config, envVars, result, outcomes>>
escVars == <<value, escPc, rendered>>
gitVars == <<gitEntry, startDir, currentDir, gitPc, gitResult, examined>>
locVars == <<disk, cwd, locPc, locResult>>
cliVars == <<args, cliPc, configPath, caught, stdout, stderr, exitCode, reads>>
vars == <<buildVars, escVars, gitVars, locVars, cliVars>>

\* ------------------------------------------------------------------------
\* Characters
\* ------------------------------------------------------------------------
NL == "\n"
TAB == "\t"
CR == "\r"
SP == " "
DQ == "\""
SQ == "'"
BS == "\\"

\* the characters /\s/ matches, as far as the model's alphabet has them
WhitespaceChars == {SP, TAB, NL, CR}

\* the class without the hash
TriggerCharsNoHash == WhitespaceChars \cup {DQ, SQ, BS, "$", "&"}

\* the class [\s"'\\$&#] tested by escapeEnvValue
TriggerChars == WhitespaceChars \cup {DQ, SQ, BS, "$", "&", "#"}

\* the class without the backslash
EscapedCharsQuoteOnly == {DQ}

\* the class ["\\] replaced by escapeEnvValue
EscapedChars == {DQ, BS}

\* ------------------------------------------------------------------------
\* String helpers
\* ------------------------------------------------------------------------
RECURSIVE Flatten(_)
\* concatenation of a sequence of strings
Flatten(ss) == IF ss = <<>> THEN <<>> ELSE Head(ss) \o Flatten(Tail(ss))

\* the elements with nothing between them
JoinNoSeparator(ss, sep) == Flatten(ss)

RECURSIVE Join(_, _)
\* Array.prototype.join: the elements with sep between each two of them
Join(ss, sep) ==
  IF ss = <<>> THEN <<>>
  ELSE IF Len(ss) = 1 THEN Head(ss)
  ELSE Head(ss) \o sep \o Join(Tail(ss), sep)

\* RegExp.prototype.test for /[\s"'\\$&#]/
TestTrigger(str) == \E i \in 1..Len(str) : str[i] \in TriggerChars

\* replace without the g flag: a backslash before the first match only
ReplaceEscapedFirstOnly(str) ==
  Flatten([i \in 1..Len(str) |->
             IF str[i] \in EscapedChars /\ \A j \in 1..(i - 1) : str[j] \notin EscapedChars
             THEN <<BS, str[i]>> ELSE <<str[i]>>])

\* String.prototype.replace(/["\\]/g, "\\$&"): a backslash before each match
ReplaceEscaped(str) ==
  Flatten([i \in 1..Len(str) |->
             IF str[i] \in EscapedChars THEN <<BS, str[i]>> ELSE <<str[i]>>])

\* the value is wrapped in quotes as it is
escapeEnvValueNoEscape(str) ==
  IF TestTrigger(str)
  THEN <<DQ>> \o str \o <<DQ>>
  ELSE str

\* escapeEnvValue(value)
escapeEnvValue(str) ==
  IF TestTrigger(str)
  THEN <<DQ>> \o ReplaceEscaped(str) \o <<DQ>>
  ELSE str

\* ------------------------------------------------------------------------
\* JavaScript values and objects
\* ------------------------------------------------------------------------
Undefined == [kind |-> "undefined"]

\* a member found on Object.prototype (a function, or the prototype itself)
InheritedMember == [kind |-> "inherited"]

\* a plain object with the given own properties
Obj(entries) == [kind |-> "object", entries |-> entries]

\* names every object created by a literal answers to through Object.prototype
ObjectPrototypeKeys ==
  {"constructor", "__proto__", "toString", "valueOf", "hasOwnProperty",
   "isPrototypeOf", "propertyIsEnumerable", "toLocaleString"}

\* the values a section key of the file can hold in the place of a mapping
StringValue(chars) == [kind |-> "string", chars |-> chars]

ArrayValue(items) == [kind |-> "array", items |-> items]

NumberValue(n) == [kind |-> "number", n |-> n]

BooleanValue(b) == [kind |-> "boolean", b |-> b]

\* ToBoolean
Truthy(v) ==
  \/ v.kind \in {"object", "inherited", "array"}
  \/ v.kind = "string" /\ v.chars # <<>>
  \/ v.kind = "number" /\ v.n # 0
  \/ v.kind = "boolean" /\ v.b

\* config[name]: own property first, then the prototype chain
Get(cfg, name) ==
  IF name \in DOMAIN cfg THEN cfg[name]
  ELSE IF name \in ObjectPrototypeKeys THEN InheritedMember
  ELSE Undefined

KeysOf(entries) == {entries[i][1] : i \in 1..Len(entries)}

HasKey(entries, k) == k \in KeysOf(entries)

ValueOf(entries, k) == entries[CHOOSE i \in 1..Len(entries) : entries[i][1] = k][2]

\* every assignment adds a property, also for a key the object has
SetPropertyAppend(entries, k, v) == Append(entries, <<k, v>>)

\* a key the object has is removed and added again at the end
SetPropertyMovesLast(entries, k, v) ==
  LET Other(e) == e[1] # k
  IN  Append(SelectSeq(entries, Other), <<k, v>>)

\* CreateDataProperty: an existing key keeps its place and takes the value,
\* a new key is added last
SetProperty(entries, k, v) ==
  IF HasKey(entries, k)
  THEN [i \in 1..Len(entries) |->
          IF entries[i][1] = k THEN <<k, v>> ELSE entries[i]]
  ELSE Append(entries, <<k, v>>)

Digits == {"0", "1", "2", "3", "4", "5", "6", "7", "8", "9"}

DigitValue(c) ==
  CASE c = "0" -> 0 [] c = "1" -> 1 [] c = "2" -> 2 [] c = "3" -> 3
    [] c = "4" -> 4 [] c = "5" -> 5 [] c = "6" -> 6 [] c = "7" -> 7
    [] c = "8" -> 8 [] c = "9" -> 9

\* a canonical numeric string (array index): such keys are listed first
IsArrayIndex(k) ==
  /\ Len(k) >= 1
  /\ \A i \in 1..Len(k) : k[i] \in Digits
  /\ (Len(k) = 1 \/ k[1] # "0")

RECURSIVE IndexValue(_)
IndexValue(k) ==
  IF k = <<>> THEN 0
  ELSE 10 * IndexValue(SubSeq(k, 1, Len(k) - 1)) + DigitValue(k[Len(k)])

\* position of entry i in OrdinaryOwnPropertyKeys: array indices in
\* ascending numeric order, then the other keys in creation order
Rank(entries, i) ==
  IF IsArrayIndex(entries[i][1])
  THEN Cardinality({j \in 1..Len(entries) :
                      /\ IsArrayIndex(entries[j][1])
                      /\ IndexValue(entries[j][1]) < IndexValue(entries[i][1])}) + 1
  ELSE Cardinality({j \in 1..Len(entries) : IsArrayIndex(entries[j][1])})
       + Cardinality({j \in 1..i : ~IsArrayIndex(entries[j][1])})

\* an order that is not the same in every call
OwnEntriesUnstable(entries) ==
  [p \in 1..Len(entries) |->
     entries[CHOOSE i \in 1..Len(entries) :
               Rank(entries, i) = (IF outcomes = {} THEN p ELSE Len(entries) + 1 - p)]]

\* Object.entries of an object with these own properties
OwnEntries(entries) ==
  [p \in 1..Len(entries) |->
     entries[CHOOSE i \in 1..Len(entries) : Rank(entries, i) = p]]

DigitChar(n) ==
  CASE n = 0 -> "0" [] n = 1 -> "1" [] n = 2 -> "2" [] n = 3 -> "3"
    [] n = 4 -> "4" [] n = 5 -> "5" [] n = 6 -> "6" [] n = 7 -> "7"
    [] n = 8 -> "8" [] n = 9 -> "9"

\* the property name of index n
RECURSIVE IndexKey(_)
IndexKey(n) ==
  IF n < 10 THEN <<DigitChar(n)>>
  ELSE IndexKey(n \div 10) \o <<DigitChar(n % 10)>>

\* the own enumerable properties an object spread copies from v: those of
\* an object, the indexed characters of a string, the indexed items of an
\* array, none of a number, a boolean or a function
SpreadSource(v) ==
  CASE v.kind = "object" -> OwnEntries(v.entries)
    [] v.kind = "string" ->
         [i \in 1..Len(v.chars) |-> <<IndexKey(i - 1), <<v.chars[i]>>>>]
    [] v.kind = "array" ->
         [i \in 1..Len(v.items) |-> <<IndexKey(i - 1), v.items[i]>>]
    [] OTHER -> <<>>

RECURSIVE CopyDataProperties(_, _)
CopyDataProperties(target, source) ==
  IF source = <<>> THEN target
  ELSE CopyDataProperties(SetProperty(target, Head(source)[1], Head(source)[2]),
                          Tail(source))

\* { ...b, ...a }
MergeBaseLast(a, b) ==
  CopyDataProperties(CopyDataProperties(<<>>, SpreadSource(b)), SpreadSource(a))

\* { ...a, ...b }
Merge(a, b) ==
  CopyDataProperties(CopyDataProperties(<<>>, SpreadSource(a)), SpreadSource(b))

\* ------------------------------------------------------------------------
\* The config file and the requests
\* ------------------------------------------------------------------------
\* variable names written in the file; the last one holds a newline
KeyNames == {<<"A">>, <<"B">>, <<"C", NL>>}

\* variable values written in the file: plain, quoted, quoted with a newline
Values == {<<"a">>, <<"b", SP, DQ>>, <<"c", NL>>}

\* section names written in the file
SectionNames == {"base", "production"}

\* environment names asked of buildEnv
EnvNames == {"base", "production", "staging", "constructor"}

SeqsUpTo(S, n) == UNION {[1..m -> S] : m \in 0..n}

\* the objects a section of the file parses to: distinct keys, string values
VariableSets(n) ==
  {Obj(es) : es \in {s \in SeqsUpTo(KeyNames \X Values, n) :
                       \A i, j \in 1..Len(s) : s[i][1] = s[j][1] => i = j}}

\* a syntactically valid file holding these sections
Document(sections) == [kind |-> "document", sections |-> sections]

Documents(n) ==
  {Document(f) : f \in UNION {[D -> VariableSets(n)] : D \in SUBSET SectionNames}}

\* a path whose file cannot be read, and a file that is not JSONC
UnreadableFile == [kind |-> "unreadable"]
InvalidFile == [kind |-> "invalid"]

Files(n) == Documents(n) \cup {UnreadableFile, InvalidFile}

\* ------------------------------------------------------------------------
\* Outcomes
\* ------------------------------------------------------------------------
NoResult == [kind |-> "none"]
Text(t) == [kind |-> "text", text |-> t]
Error(m) == [kind |-> "error", message |-> m]

MissingBaseSection == Error(<<"Config file must contain a 'base' section">>)

MissingEnvironmentSection(env) ==
  Error(<<"Config file does not contain a '", env, "' section">>)

\* the message of the error Deno.readTextFile or parseJsonc threw
CauseMessage(f) ==
  IF f.kind = "unreadable" THEN <<"No such file or directory">>
  ELSE <<"Unexpected token">>

\* the cause is thrown again as it is
loadConfigBare(f) ==
  IF f.kind = "document"
  THEN [ok |-> TRUE, value |-> f.sections]
  ELSE [ok |-> FALSE, error |-> Error(CauseMessage(f))]

\* loadConfig: the parsed object, or the wrapped error
loadConfig(f) ==
  IF f.kind = "document"
  THEN [ok |-> TRUE, value |-> f.sections]
  ELSE [ok |-> FALSE,
        error |-> Error(<<"Failed to load or parse config file: ">> \o CauseMessage(f))]

\* the environment has to be one of the three the command line knows
ValidateKnownEnvironment(cfg, env) ==
  IF ~Truthy(Get(cfg, "base")) THEN MissingBaseSection
  ELSE IF env \notin {"development", "staging", "production"}
         \/ ~Truthy(Get(cfg, env))
  THEN MissingEnvironmentSection(env)
  ELSE NoResult

\* a section without variables counts as missing
ValidateNonEmpty(cfg, env) ==
  IF ~Truthy(Get(cfg, "base")) \/ SpreadSource(Get(cfg, "base")) = <<>>
  THEN MissingBaseSection
  ELSE IF ~Truthy(Get(cfg, env)) \/ SpreadSource(Get(cfg, env)) = <<>>
  THEN MissingEnvironmentSection(env)
  ELSE NoResult

\* the two checks in the other order
ValidateEnvironmentFirst(cfg, env) ==
  IF ~Truthy(Get(cfg, env)) THEN MissingEnvironmentSection(env)
  ELSE IF ~Truthy(Get(cfg, "base")) THEN MissingBaseSection
  ELSE NoResult

\* the two checks of buildEnv: the error thrown, or NoResult when both pass
Validate(cfg, env) ==
  IF ~Truthy(Get(cfg, "base")) THEN MissingBaseSection
  ELSE IF ~Truthy(Get(cfg, env)) THEN MissingEnvironmentSection(env)
  ELSE NoResult

\* one `KEY=VALUE` fragment
Fragment(entry) == entry[1] \o <<"=">> \o escapeEnvValue(entry[2])

\* every line ended by a newline
RenderTrailingNewline(merged) ==
  LET es == OwnEntries(merged)
  IN  Flatten([i \in 1..Len(es) |-> Fragment(es[i]) \o <<NL>>])

\* Object.entries(envVars).map(...).join("\n")
Render(merged) ==
  LET es == OwnEntries(merged)
  IN  Join([i \in 1..Len(es) |-> Fragment(es[i])], <<NL>>)

\* ------------------------------------------------------------------------
\* The file system seen by findGitRoot
\* ------------------------------------------------------------------------
\* the directory n levels below the filesystem root
DirAt(n) == [i \in 1..n |-> "d"]

Dirs == {DirAt(n) : n \in 0..MaxDepth}

\* the directories of a hierarchy n levels deep
DirsUpTo(n) == {DirAt(k) : k \in 0..n}

\* what a directory holds under the name `.git`
EntryKinds == {"none", "dir", "file"}

\* a dirname for which the root has a parent other than itself
dirnameRootHasParent(p) == IF p = <<>> THEN <<"d">> ELSE SubSeq(p, 1, Len(p) - 1)

\* path.dirname: the root is its own parent
dirname(p) == IF p = <<>> THEN <<>> ELSE SubSeq(p, 1, Len(p) - 1)

\* path.join(dir, name)
join(dir, name) == Append(dir, name)

\* the path given with --file in the runs that give one
CustomPath == <<"custom.jsonc">>

\* exists(path): for a `.git` path true for a directory and for a file
exists(path) ==
  LET name == path[Len(path)]
  IN  CASE name = ".git" -> gitEntry[dirname(path)] # "none"
        [] name = "env.jsonc" -> dirname(path) \in disk.envJsonc
        [] name = ".je.jsonc" -> dirname(path) \in disk.jeJsonc
        [] OTHER -> path = CustomPath /\ disk.custom

\* what Deno.readTextFile finds at the path: every config file of the disk
\* has the same content
FileAt(path) ==
  IF path # <<>> /\ exists(path) THEN file ELSE UnreadableFile

\* ------------------------------------------------------------------------
\* buildEnv(configPath, environment)
\* ------------------------------------------------------------------------
\* buildEnv starts by awaiting loadConfig
Enter(env) ==
  /\ environment' = env
  /\ pc' = "loading"
  /\ config' = <<>>
  /\ envVars' = <<>>
  /\ result' = NoResult

\* a caller calls buildEnv
CallBuildEnv(env) ==
  /\ pc = "idle"
  /\ cliPc = "idle"
  /\ Enter(env)
  /\ reads' = <<>>
  /\ UNCHANGED <<file, outcomes, escVars, gitVars, locVars>>
  /\ UNCHANGED <<args, cliPc, configPath, caught, stdout, stderr, exitCode>>

\* a caller that has the outcome of a call calls buildEnv again
CallBuildEnvAgain(env) ==
  /\ pc \in {"returned", "thrown"}
  /\ cliPc = "idle"
  /\ outcomes' = outcomes \cup {<<environment, result>>}
  /\ Enter(env)
  /\ reads' = <<>>
  /\ UNCHANGED <<file, escVars, gitVars, locVars>>
  /\ UNCHANGED <<args, cliPc, configPath, caught, stdout, stderr, exitCode>>

\* the file is read once to see that it is there and once more to load it
LoadConfigReadsTwice ==
  /\ pc = "loading"
  /\ reads' = reads \o <<configPath, configPath>>
  /\ LET r == loadConfig(FileAt(configPath))
     IN  IF r.ok
         THEN /\ config' = r.value
              /\ pc' = "loaded"
              /\ UNCHANGED result
         ELSE /\ result' = r.error
              /\ pc' = "thrown"
              /\ UNCHANGED config
  /\ UNCHANGED <<file, environment, envVars, outcomes, escVars, gitVars, locVars>>
  /\ UNCHANGED <<args, cliPc, configPath, caught, stdout, stderr, exitCode>>

\* loadConfig settles: buildEnv resumes with the object or rethrows
LoadConfig ==
  /\ pc = "loading"
  /\ reads' = Append(reads, configPath)
  /\ LET r == loadConfig(FileAt(configPath))
     IN  IF r.ok
         THEN /\ config' = r.value
              /\ pc' = "loaded"
              /\ UNCHANGED result
         ELSE /\ result' = r.error
              /\ pc' = "thrown"
              /\ UNCHANGED config
  /\ UNCHANGED <<file, environment, envVars, outcomes, escVars, gitVars, locVars>>
  /\ UNCHANGED <<args, cliPc, configPath, caught, stdout, stderr, exitCode>>

\* the environment section is assigned into the base object of the document
BuildEnvBodyAssignsIntoBase ==
  /\ pc = "loaded"
  /\ LET failure == Validate(config, environment)
         merged == Merge(Get(config, "base"), Get(config, environment))
     IN  IF failure # NoResult
         THEN /\ result' = failure
              /\ pc' = "thrown"
              /\ UNCHANGED <<envVars, config>>
         ELSE /\ envVars' = merged
              /\ config' = [config EXCEPT !["base"] = Obj(merged)]
              /\ result' = Text(Render(merged))
              /\ pc' = "returned"
  /\ UNCHANGED <<file, environment, outcomes, escVars, gitVars, locVars, cliVars>>

\* the rest of buildEnv runs without suspending: the two checks, the merge
\* and the rendering
BuildEnvBody ==
  /\ pc = "loaded"
  /\ LET failure == Validate(config, environment)
         merged == Merge(Get(config, "base"), Get(config, environment))
     IN  IF failure # NoResult
         THEN /\ result' = failure
              /\ pc' = "thrown"
              /\ UNCHANGED envVars
         ELSE /\ envVars' = merged
              /\ result' = Text(Render(merged))
              /\ pc' = "returned"
  /\ UNCHANGED <<file, environment, config, outcomes, escVars, gitVars, locVars, cliVars>>

\* ------------------------------------------------------------------------
\* escapeEnvValue(value)
\* ------------------------------------------------------------------------
EscapeEnvValue ==
  /\ escPc = "called"
  /\ rendered' = escapeEnvValue(value)
  /\ escPc' = "returned"
  /\ UNCHANGED <<value, buildVars, gitVars, locVars, cliVars>>

\* ------------------------------------------------------------------------
\* findGitRoot(startDir)
\* ------------------------------------------------------------------------
RootNotFound == Error(<<"Could not find git repository root">>)

\* the search starts at the parent
FirstCandidateParent(start) == dirname(start)

\* let currentDir = startDir
FirstCandidate(start) == start

FindGitRoot(start) ==
  /\ gitPc = "idle"
  /\ locPc = "idle"
  /\ startDir' = start
  /\ currentDir' = FirstCandidate(start)
  /\ gitPc' = "searching"
  /\ UNCHANGED <<gitEntry, gitResult, examined, buildVars, escVars, locVars, cliVars>>

\* one turn of the loop: the marker check, then the step to the parent
GitIteration ==
  /\ gitPc = "searching"
  /\ examined' = Append(examined, currentDir)
  /\ IF exists(join(currentDir, ".git"))
     THEN /\ gitResult' = [kind |-> "dir", path |-> currentDir]
          /\ gitPc' = "returned"
          /\ UNCHANGED currentDir
     ELSE IF dirname(currentDir) = currentDir
     THEN /\ gitResult' = RootNotFound
          /\ gitPc' = "thrown"
          /\ UNCHANGED currentDir
     ELSE /\ currentDir' = dirname(currentDir)
          /\ UNCHANGED <<gitResult, gitPc>>
  /\ UNCHANGED <<gitEntry, startDir, buildVars, escVars, locVars, cliVars>>

\* ------------------------------------------------------------------------
\* findConfigFile()
\* ------------------------------------------------------------------------
\* the name joined to the git root
DefaultConfigName == "env.jsonc"

\* the error is thrown with the context already in its message
ConfigFileNotFoundPrefixed ==
  Error(<<"Failed to locate config file: ",
          "Could not find env.jsonc config file in git root directory">>)

ConfigFileNotFound ==
  Error(<<"Could not find env.jsonc config file in git root directory">>)

\* the error is passed on as it is
LocateErrorBare(err) == err

\* the catch clause of findConfigFile: a new error with the context in front
LocateError(err) == Error(<<"Failed to locate config file: ">> \o err.message)

\* join(gitRoot, "env.jsonc")
DefaultConfig == join(gitResult.path, DefaultConfigName)

\* findConfigFile starts by awaiting findGitRoot(), which starts in Deno.cwd()
EnterFindConfigFile ==
  /\ locPc' = "root"
  /\ locResult' = NoResult
  /\ startDir' = cwd
  /\ currentDir' = FirstCandidate(cwd)
  /\ gitPc' = "searching"
  /\ UNCHANGED <<gitEntry, gitResult, examined, disk, cwd>>

\* a caller calls findConfigFile
CallFindConfigFile ==
  /\ cliPc = "idle"
  /\ locPc = "idle"
  /\ gitPc = "idle"
  /\ EnterFindConfigFile
  /\ UNCHANGED <<buildVars, escVars, cliVars>>

\* findGitRoot settles: its error goes to the catch clause, its directory
\* into the path whose existence is awaited next
FindConfigFileResume ==
  /\ locPc = "root"
  /\ gitPc \in {"returned", "thrown"}
  /\ IF gitPc = "thrown"
     THEN /\ locResult' = LocateError(gitResult)
          /\ locPc' = "thrown"
     ELSE /\ locPc' = "checking"
          /\ UNCHANGED locResult
  /\ UNCHANGED <<disk, cwd, buildVars, escVars, gitVars, cliVars>>

\* when the file is not in the root that was found, the search for a root
\* goes on above it
FindConfigFileCheckGoesUp ==
  /\ locPc = "checking"
  /\ IF exists(DefaultConfig)
     THEN /\ locResult' = [kind |-> "path", path |-> DefaultConfig]
          /\ locPc' = "returned"
          /\ UNCHANGED gitVars
     ELSE IF gitResult.path # <<>>
     THEN /\ locPc' = "root"
          /\ gitPc' = "searching"
          /\ currentDir' = dirname(gitResult.path)
          /\ UNCHANGED <<locResult, gitEntry, startDir, gitResult, examined>>
     ELSE /\ locResult' = LocateError(ConfigFileNotFound)
          /\ locPc' = "thrown"
          /\ UNCHANGED gitVars
  /\ UNCHANGED <<disk, cwd, buildVars, escVars, cliVars>>

\* exists(defaultConfig) settles: the path is returned, or the error thrown
\* in the try block goes through the catch clause
FindConfigFileCheck ==
  /\ locPc = "checking"
  /\ IF exists(DefaultConfig)
     THEN /\ locResult' = [kind |-> "path", path |-> DefaultConfig]
          /\ locPc' = "returned"
     ELSE /\ locResult' = LocateError(ConfigFileNotFound)
          /\ locPc' = "thrown"
  /\ UNCHANGED <<disk, cwd, buildVars, escVars, gitVars, cliVars>>

\* ------------------------------------------------------------------------
\* processCli(args)
\* ------------------------------------------------------------------------
\* the value of the file option: a string, or undefined when it is not given
FileOption(text) == [kind |-> "string", text |-> text]

\* the file option is not looked at
FileOptionIgnored(a) == FALSE

\* parsedArgs.file as the left operand of ||: a non-empty string
FileGiven(a) == a.file.kind = "string" /\ a.file.text # ""

\* staging is tested before production
SelectEnvironmentStagingFirst(a) ==
  IF a.staging THEN "staging"
  ELSE IF a.production THEN "production"
  ELSE "development"

\* the default, replaced by production, else by staging
SelectEnvironment(a) ==
  IF a.production THEN "production"
  ELSE IF a.staging THEN "staging"
  ELSE "development"

\* the text showHelp writes
HelpText == <<"je - JSON Environment Variable Builder">>

\* the message is written and the process is left to end by itself
CatchNoExit(err) ==
  /\ caught' = err
  /\ stderr' = Append(stderr, <<"Error: ">> \o err.message)
  /\ cliPc' = "exited"
  /\ UNCHANGED <<args, stdout, exitCode>>

\* the catch clause of processCli
Catch(err) ==
  /\ caught' = err
  /\ stderr' = Append(stderr, <<"Error: ">> \o err.message)
  /\ exitCode' = 1
  /\ cliPc' = "exited"
  /\ UNCHANGED <<args, stdout>>

\* the help flag is looked at after the file option
ProcessCliHelpAfterFile ==
  /\ cliPc = "idle"
  /\ pc = "idle"
  /\ locPc = "idle"
  /\ gitPc = "idle"
  /\ IF FileGiven(args)
     THEN /\ configPath' = <<args.file.text>>
          /\ Enter(SelectEnvironment(args))
          /\ cliPc' = "building"
          /\ UNCHANGED <<args, caught, stdout, stderr, exitCode, reads>>
          /\ UNCHANGED <<file, outcomes, gitVars, locVars>>
     ELSE IF args.help
     THEN /\ stdout' = Append(stdout, HelpText)
          /\ cliPc' = "done"
          /\ UNCHANGED <<args, configPath, caught, stderr, exitCode, reads>>
          /\ UNCHANGED <<buildVars, gitVars, locVars>>
     ELSE /\ EnterFindConfigFile
          /\ cliPc' = "locating"
          /\ UNCHANGED <<args, configPath, caught, stdout, stderr, exitCode, reads>>
          /\ UNCHANGED buildVars
  /\ UNCHANGED escVars

\* processCli up to its first await: help, or the environment and then
\* buildEnv on the given path, or findConfigFile when no path is given
ProcessCli ==
  /\ cliPc = "idle"
  /\ pc = "idle"
  /\ locPc = "idle"
  /\ gitPc = "idle"
  /\ IF args.help
     THEN /\ stdout' = Append(stdout, HelpText)
          /\ cliPc' = "done"
          /\ UNCHANGED <<args, configPath, caught, stderr, exitCode, reads>>
          /\ UNCHANGED <<buildVars, gitVars, locVars>>
     ELSE IF FileGiven(args)
     THEN /\ configPath' = <<args.file.text>>
          /\ Enter(SelectEnvironment(args))
          /\ cliPc' = "building"
          /\ UNCHANGED <<args, caught, stdout, stderr, exitCode, reads>>
          /\ UNCHANGED <<file, outcomes, gitVars, locVars>>
     ELSE /\ EnterFindConfigFile
          /\ cliPc' = "locating"
          /\ UNCHANGED <<args, configPath, caught, stdout, stderr, exitCode, reads>>
          /\ UNCHANGED buildVars
  /\ UNCHANGED escVars

\* findConfigFile settles: buildEnv is called on its path, or its error is
\* caught
ProcessCliLocated ==
  /\ cliPc = "locating"
  /\ locPc \in {"returned", "thrown"}
  /\ IF locPc = "returned"
     THEN /\ configPath' = locResult.path
          /\ Enter(SelectEnvironment(args))
          /\ cliPc' = "building"
          /\ UNCHANGED <<args, caught, stdout, stderr, exitCode, reads>>
          /\ UNCHANGED <<file, outcomes>>
     ELSE /\ Catch(locResult)
          /\ UNCHANGED <<configPath, reads, buildVars>>
  /\ UNCHANGED <<escVars, gitVars, locVars>>

\* buildEnv settles: its text is written to standard output, or its error
\* is caught
ProcessCliBuilt ==
  /\ cliPc = "building"
  /\ pc \in {"returned", "thrown"}
  /\ IF pc = "returned"
     THEN /\ stdout' = Append(stdout, result.text)
          /\ cliPc' = "done"
          /\ UNCHANGED <<args, caught, stderr, exitCode>>
     ELSE Catch(result)
  /\ UNCHANGED <<configPath, reads, buildVars, escVars, gitVars, locVars>>

\* ------------------------------------------------------------------------
\* Specifications
\* ------------------------------------------------------------------------
BuildIdle ==
  /\ environment = "none"
  /\ pc = "idle"
  /\ config = <<>>
  /\ envVars = <<>>
  /\ result = NoResult
  /\ outcomes = {}

EscapeIdle ==
  /\ value = <<>>
  /\ escPc = "idle"
  /\ rendered = <<>>

GitIdle ==
  /\ startDir = <<>>
  /\ currentDir = <<>>
  /\ gitPc = "idle"
  /\ gitResult = NoResult
  /\ examined = <<>>

NoArgs ==
  [help |-> FALSE, development |-> FALSE, staging |-> FALSE,
   production |-> FALSE, file |-> [kind |-> "undefined"]]

LocateIdle ==
  /\ cwd = <<>>
  /\ locPc = "idle"
  /\ locResult = NoResult

\* no run of the command line is in progress; the exit status is -1 as
\* long as Deno.exit was not called
CliIdle ==
  /\ args = NoArgs
  /\ cliPc = "idle"
  /\ configPath = CustomPath
  /\ caught = NoResult
  /\ stdout = <<>>
  /\ stderr = <<>>
  /\ exitCode = -1
  /\ reads = <<>>

\* a disk whose only config file is the one at the explicit path
CustomFileOnly == [envJsonc |-> {}, jeJsonc |-> {}, custom |-> TRUE]

\* no call of findConfigFile or processCli is in progress
OthersIdle ==
  /\ disk = CustomFileOnly
  /\ LocateIdle
  /\ CliIdle

\* buildEnv called on a config file
Init ==
  /\ file \in Files(MaxVars)
  /\ BuildIdle
  /\ EscapeIdle
  /\ gitEntry = [d \in Dirs |-> "none"]
  /\ GitIdle
  /\ OthersIdle

Next ==
  \/ \E env \in EnvNames : CallBuildEnv(env)
  \/ LoadConfig
  \/ BuildEnvBody

Spec == Init /\ [][Next]_vars

\* buildEnv called again and again on a config file
InitRepeat ==
  /\ file \in Files(MaxRepeatVars)
  /\ BuildIdle
  /\ EscapeIdle
  /\ gitEntry = [d \in Dirs |-> "none"]
  /\ GitIdle
  /\ OthersIdle

NextRepeat ==
  \/ \E env \in EnvNames : CallBuildEnv(env)
  \/ \E env \in EnvNames : CallBuildEnvAgain(env)
  \/ LoadConfig
  \/ BuildEnvBody

SpecRepeat == InitRepeat /\ [][NextRepeat]_vars

\* the characters values are made of in SpecEscape
Alphabet == {"a", SP, TAB, NL, DQ, SQ, BS, "$", "&", "#"}

\* the value of the documented example: he said "hi" \ ok
ExampleValue ==
  <<"h", "e", SP, "s", "a", "i", "d", SP, DQ, "h", "i", DQ, SP, BS, SP, "o", "k">>

EscapeInputs == SeqsUpTo(Alphabet, MaxValueLen) \cup {ExampleValue}

\* escapeEnvValue applied to a value
InitEscape ==
  /\ file = UnreadableFile
  /\ BuildIdle
  /\ value \in EscapeInputs
  /\ escPc = "called"
  /\ rendered = <<>>
  /\ gitEntry = [d \in Dirs |-> "none"]
  /\ GitIdle
  /\ OthersIdle

NextEscape == EscapeEnvValue

SpecEscape == InitEscape /\ [][NextEscape]_vars

\* findGitRoot called in a directory hierarchy
InitGit ==
  /\ file = UnreadableFile
  /\ BuildIdle
  /\ EscapeIdle
  /\ gitEntry \in [Dirs -> EntryKinds]
  /\ GitIdle
  /\ OthersIdle

NextGit ==
  \/ \E start \in Dirs : FindGitRoot(start)
  \/ GitIteration

SpecGit == InitGit /\ [][NextGit]_vars

\* the same, with the loop of findGitRoot running on: each awaited exists
\* settles and the function resumes
SpecGitFair == SpecGit /\ WF_vars(GitIteration)

\* the disks of a hierarchy n levels deep
Disks(n, customs) ==
  [envJsonc : SUBSET DirsUpTo(n), jeJsonc : SUBSET DirsUpTo(n), custom : customs]

\* findConfigFile called in a directory hierarchy
InitLocate ==
  /\ file = UnreadableFile
  /\ BuildIdle
  /\ EscapeIdle
  /\ gitEntry \in [DirsUpTo(MaxLocateDepth) -> EntryKinds]
  /\ GitIdle
  /\ disk \in Disks(MaxLocateDepth, {FALSE})
  /\ cwd \in DirsUpTo(MaxLocateDepth)
  /\ locPc = "idle"
  /\ locResult = NoResult
  /\ CliIdle

NextLocate ==
  \/ CallFindConfigFile
  \/ GitIteration
  \/ FindConfigFileResume
  \/ FindConfigFileCheck

SpecLocate == InitLocate /\ [][NextLocate]_vars

\* section names of the files of SpecSections, one of them of no
\* environment the command line knows, and the names asked of buildEnv
OtherSectionNames == {"base", "qa"}

OtherEnvNames == {"base", "qa", "staging"}

DocumentsOver(names, n) ==
  {Document(f) : f \in UNION {[D -> VariableSets(n)] : D \in SUBSET names}}

\* buildEnv called once with the name of any section
InitSections ==
  /\ file \in DocumentsOver(OtherSectionNames, MaxSectionVars)
  /\ BuildIdle
  /\ EscapeIdle
  /\ gitEntry = [d \in Dirs |-> "none"]
  /\ GitIdle
  /\ OthersIdle

NextSections ==
  \/ \E env \in OtherEnvNames : CallBuildEnv(env)
  \/ LoadConfig
  \/ BuildEnvBody

SpecSections == InitSections /\ [][NextSections]_vars

\* what a section key of the files of SpecShapes holds: a mapping, a
\* string, an array of strings, a number or a boolean
ShapeValues(n) ==
  VariableSets(MaxSectionVars)
    \cup {StringValue(c) : c \in SeqsUpTo({"a", "b"}, n)}
    \cup {ArrayValue(items) : items \in SeqsUpTo(Values, n)}
    \cup {NumberValue(0), NumberValue(5)}
    \cup {BooleanValue(FALSE), BooleanValue(TRUE)}

ShapeDocuments(n) ==
  {Document(f) : f \in UNION {[D -> ShapeValues(n)] : D \in SUBSET SectionNames}}

ShapeEnvNames == {"base", "production"}

\* buildEnv called once on a valid file whose sections need not be
\* mappings
InitShapes ==
  /\ file \in ShapeDocuments(MaxShapeLen)
  /\ BuildIdle
  /\ EscapeIdle
  /\ gitEntry = [d \in Dirs |-> "none"]
  /\ GitIdle
  /\ OthersIdle

NextShapes ==
  \/ \E env \in ShapeEnvNames : CallBuildEnv(env)
  \/ LoadConfig
  \/ BuildEnvBody

SpecShapes == InitShapes /\ [][NextShapes]_vars

\* the sections of the files of the command line runs
CliBase == Obj(<< <<<<"A">>, <<"a">>>>, <<<<"B">>, <<"b", SP, DQ>>>> >>)

CliOverride(name) ==
  Obj(<< <<<<"B">>, IF name = "development" THEN <<"d">>
                    ELSE IF name = "staging" THEN <<"s">>
                    ELSE <<"p">>>> >>)

CliSectionSets ==
  { {}, {"development"}, {"base"}, {"base", "production"},
    {"base", "development", "staging", "production"} }

CliFiles ==
  {Document([n \in D |-> IF n = "base" THEN CliBase ELSE CliOverride(n)]) :
     D \in CliSectionSets} \cup {UnreadableFile, InvalidFile}

\* the parsed arguments: four flags, and the file option absent, empty or
\* naming a file
ArgSets ==
  [help : BOOLEAN, development : BOOLEAN, staging : BOOLEAN,
   production : BOOLEAN,
   file : {NoArgs.file, FileOption(""), FileOption(CustomPath[1])}]

\* one run of the command line in a directory hierarchy
InitCli ==
  /\ file \in CliFiles
  /\ BuildIdle
  /\ EscapeIdle
  /\ gitEntry \in [DirsUpTo(MaxCliDepth) -> EntryKinds]
  /\ GitIdle
  /\ disk \in [envJsonc : SUBSET DirsUpTo(MaxCliDepth), jeJsonc : {{}},
               custom : BOOLEAN]
  /\ cwd \in DirsUpTo(MaxCliDepth)
  /\ locPc = "idle"
  /\ locResult = NoResult
  /\ args \in ArgSets
  /\ cliPc = "idle"
  /\ configPath = <<>>
  /\ caught = NoResult
  /\ stdout = <<>>
  /\ stderr = <<>>
  /\ exitCode = -1
  /\ reads = <<>>

NextCli ==
  \/ ProcessCli
  \/ GitIteration
  \/ FindConfigFileResume
  \/ FindConfigFileCheck
  \/ ProcessCliLocated
  \/ LoadConfig
  \/ BuildEnvBody
  \/ ProcessCliBuilt

SpecCli == InitCli /\ [][NextCli]_vars

\* ------------------------------------------------------------------------
\* What the claims speak of
\* ------------------------------------------------------------------------
\* the file is a document in which a section of this name is written
HasSection(name) == file.kind = "document" /\ name \in DOMAIN file.sections

\* the variables written in that section of the file, none if there is none
WrittenSection(name) ==
  IF HasSection(name) THEN file.sections[name].entries ELSE <<>>

Finished == pc \in {"returned", "thrown"}

\* the line `KEY=` followed by the escaped value
KeyValueLine(k, v) == k \o <<"=">> \o escapeEnvValue(v)

RECURSIVE TotalLen(_)
TotalLen(ss) == IF ss = <<>> THEN 0 ELSE Len(Head(ss)) + TotalLen(Tail(ss))

\* t is the lines in this order with one newline between two of them and
\* nothing before, after or besides
IsJoinedLines(t, lines) ==
  LET n == Len(lines)
      start(i) == 1 + TotalLen(SubSeq(lines, 1, i - 1)) + (i - 1)
  IN  /\ Len(t) = TotalLen(lines) + (IF n = 0 THEN 0 ELSE n - 1)
      /\ \A i \in 1..n :
           /\ SubSeq(t, start(i), start(i) + Len(lines[i]) - 1) = lines[i]
           /\ i < n => t[start(i) + Len(lines[i])] = NL

Orderings(n) ==
  {f \in [1..n -> 1..n] : \A i, j \in 1..n : f[i] = f[j] => i = j}

\* the number of non-empty lines of t.split("\n")
NonEmptyLines(t) ==
  Cardinality({i \in 1..Len(t) : t[i] # NL /\ (i = 1 \/ t[i - 1] = NL)})

HasNewline(str) == \E i \in 1..Len(str) : str[i] = NL

\* the run of the command line is over
CliFinished == cliPc \in {"done", "exited"}

\* no step of the search for the git root or the default file was taken
NoDiscovery ==
  /\ locPc = "idle"
  /\ gitPc = "idle"
  /\ examined = <<>>

\* the error that was caught is none of the two errors of the search
NoLocateFailure ==
  caught.kind = "error" =>
    \A i \in DOMAIN caught.message :
      caught.message[i] \notin
        {"Could not find git repository root",
         "Could not find env.jsonc config file in git root directory",
         "Failed to locate config file: "}

\* the messages that name the stage that failed
ContextPrefixes ==
  {"Failed to locate config file: ", "Failed to load or parse config file: "}

\* the number of layers of context in a message
Layers(m) == Cardinality({i \in DOMAIN m : m[i] \in ContextPrefixes})

\* the lines of the merged environment in its order
EnvLines == [i \in 1..Len(envVars) |-> KeyValueLine(envVars[i][1], envVars[i][2])]

\* ------------------------------------------------------------------------
\* C1
\* ------------------------------------------------------------------------
\* C1. Merge override law: when buildEnv returns, the merged environment
\* carries for every variable name k the value the selected section gives
\* it if that section has k, otherwise the value base gives it if base has
\* k, and no entry otherwise; and the returned text is made of the lines of
\* exactly these values, so an overridden base value is not the value
\* rendered for its key.
MergeOverrideLaw ==
  pc = "returned" =>
    LET B == WrittenSection("base")
        E == WrittenSection(environment)
        expected(k) == IF HasKey(E, k) THEN ValueOf(E, k) ELSE ValueOf(B, k)
    IN  /\ \A k \in KeyNames :
             IF HasKey(E, k) \/ HasKey(B, k)
             THEN /\ HasKey(envVars, k)
                  /\ ValueOf(envVars, k) = expected(k)
                  /\ Cardinality({i \in 1..Len(envVars) : envVars[i][1] = k}) = 1
             ELSE ~HasKey(envVars, k)
        /\ KeysOf(envVars) \subseteq KeyNames
        /\ result.kind = "text"
        /\ \E f \in Orderings(Len(envVars)) :
             IsJoinedLines(result.text,
               [i \in 1..Len(envVars) |->
                  KeyValueLine(envVars[f[i]][1], expected(envVars[f[i]][1]))])

\* a call has returned for a file in which the section overrides a base
\* variable with another value and both sides have a variable of their own
MergeOverrideWitness ==
  /\ pc = "returned"
  /\ environment = "production"
  /\ LET B == WrittenSection("base")
         E == WrittenSection("production")
     IN  /\ \E k \in KeysOf(B) \cap KeysOf(E) : ValueOf(B, k) # ValueOf(E, k)
         /\ KeysOf(B) \ KeysOf(E) # {}
         /\ KeysOf(E) \ KeysOf(B) # {}

\* ------------------------------------------------------------------------
\* C2
\* ------------------------------------------------------------------------
\* C2. Missing base fails closed: a call on a document without a `base`
\* section ends, whatever the environment name and whether or not that
\* section is written, with the MissingBaseSection error, no text and no
\* merged environment.
MissingBaseFailsClosed ==
  (Finished /\ file.kind = "document" /\ ~HasSection("base")) =>
    /\ pc = "thrown"
    /\ result = Error(<<"Config file must contain a 'base' section">>)
    /\ envVars = <<>>

\* a call has ended on a document that has the requested section, with
\* variables in it, and no base
MissingBaseWitness ==
  /\ Finished
  /\ file.kind = "document"
  /\ ~HasSection("base")
  /\ HasSection(environment)
  /\ WrittenSection(environment) # <<>>

\* ------------------------------------------------------------------------
\* C3
\* ------------------------------------------------------------------------
\* C3. Missing environment fails closed with the name embedded: a call on a
\* document that has a `base` section, for a name that is not a section of
\* the document, ends with the error "Config file does not contain a
\* '<name>' section" and no text.
MissingEnvironmentFailsClosed ==
  (Finished /\ HasSection("base") /\ ~HasSection(environment)) =>
    /\ pc = "thrown"
    /\ result = Error(<<"Config file does not contain a '", environment, "' section">>)

\* ------------------------------------------------------------------------
\* C4
\* ------------------------------------------------------------------------
\* the value has a whitespace character, a double or single quote, a
\* backslash, a dollar sign, an ampersand or a hash
HasSpecial(str) ==
  \E i \in 1..Len(str) :
    str[i] \in {SP, TAB, NL, CR, DQ, SQ, BS, "$", "&", "#"}

\* C4. Quoting trigger: escapeEnvValue returns the value itself exactly when
\* the value has none of the special characters; a value that has one comes
\* back wrapped in a pair of double quotes; the empty value comes back empty.
QuotingTrigger ==
  escPc = "returned" =>
    /\ (rendered = value) <=> ~HasSpecial(value)
    /\ HasSpecial(value) =>
         /\ Len(rendered) >= Len(value) + 2
         /\ rendered[1] = DQ
         /\ rendered[Len(rendered)] = DQ
    /\ value = <<>> => rendered = <<>>

\* a value whose only special character is a hash has come back quoted
QuotingTriggerWitness ==
  /\ escPc = "returned"
  /\ value = <<"a", "#", "a">>
  /\ rendered = <<DQ, "a", "#", "a", DQ>>

\* ------------------------------------------------------------------------
\* C5
\* ------------------------------------------------------------------------
\* the number of double quotes and backslashes among the first i characters
EscapesBefore(str, i) ==
  Cardinality({j \in 1..i : str[j] \in {DQ, BS}})

\* C5. Quoted form: for a value with a special character, between the two
\* wrapping quotes every character of the value stands in its original
\* order, a double quote or backslash right after one added backslash and
\* every other character with nothing added; the rendering is as long as
\* the value plus 2 plus the number of its double quotes and backslashes;
\* and `he said "hi" \ ok` renders as `"he said \"hi\" \\ ok"`.
QuotedForm ==
  (escPc = "returned" /\ HasSpecial(value)) =>
    LET n == Len(value)
        inner == SubSeq(rendered, 2, Len(rendered) - 1)
    IN  /\ Len(rendered) = n + 2 + EscapesBefore(value, n)
        /\ rendered[1] = DQ
        /\ rendered[Len(rendered)] = DQ
        /\ \A i \in 1..n :
             /\ inner[i + EscapesBefore(value, i)] = value[i]
             /\ value[i] \in {DQ, BS} =>
                  inner[i + EscapesBefore(value, i) - 1] = BS
        /\ value = ExampleValue =>
             rendered = <<DQ, "h", "e", SP, "s", "a", "i", "d", SP, BS, DQ, "h", "i",
                          BS, DQ, SP, BS, BS, SP, "o", "k", DQ>>

\* a value with a backslash, a double quote and a dollar sign has come back
QuotedFormWitness ==
  /\ escPc = "returned"
  /\ value = <<BS, DQ, "$">>
  /\ rendered = <<DQ, BS, BS, BS, DQ, "$", DQ>>

\* ------------------------------------------------------------------------
\* C6
\* ------------------------------------------------------------------------
\* C6. Render format: the text buildEnv returns is, for some order of the
\* keys of the merged environment, the lines `KEY=` followed by
\* escapeEnvValue(VALUE), one for each key and no other, with one newline
\* between two lines, none after the last and nothing else; no key has two
\* lines.
RenderFormat ==
  pc = "returned" =>
    /\ result.kind = "text"
    /\ \A i, j \in 1..Len(envVars) : envVars[i][1] = envVars[j][1] => i = j
    /\ \E f \in Orderings(Len(envVars)) :
         IsJoinedLines(result.text,
           [i \in 1..Len(envVars) |->
              KeyValueLine(envVars[f[i]][1], envVars[f[i]][2])])

\* a text of three lines, one of them with a quoted value, was returned
RenderFormatWitness ==
  /\ pc = "returned"
  /\ Len(envVars) = 3
  /\ \E i \in 1..3 : envVars[i][2] = <<"b", SP, DQ>>
  /\ result.text # <<>>
  /\ result.text[Len(result.text)] # NL

\* ------------------------------------------------------------------------
\* C7
\* ------------------------------------------------------------------------
Max(a, b) == IF a >= b THEN a ELSE b

LineCountEqualsKeyCount ==
  pc = "returned" => NonEmptyLines(result.text) = Len(envVars)

\* C8 as amended. When no key and no value of the merged environment has a
\* newline character, the number of non-empty lines of the returned text,
\* split on the newline character, is the number of keys of the merged
\* environment.
LineCountWithoutNewlines ==
  (/\ pc = "returned"
   /\ \A i \in 1..Len(envVars) :
        ~HasNewline(envVars[i][1]) /\ ~HasNewline(envVars[i][2])) =>
    NonEmptyLines(result.text) = Len(envVars)

\* two entries without a newline, one of them quoted, gave two lines; the
\* file has a value with a newline, which the section overrides
LineCountWitness ==
  /\ pc = "returned"
  /\ Len(envVars) = 2
  /\ \A i \in 1..2 : ~HasNewline(envVars[i][1]) /\ ~HasNewline(envVars[i][2])
  /\ \E i \in 1..2 : envVars[i][2] = <<"b", SP, DQ>>
  /\ \E i \in 1..Len(WrittenSection("base")) :
       HasNewline(WrittenSection("base")[i][2])
  /\ NonEmptyLines(result.text) = 2

Ancestor(dir, i) == SubSeq(dir, 1, Len(dir) - (i - 1))

\* C10. Nearest root wins: the directory findGitRoot returns is startDir or
\* one of its ancestors, it has a `.git` entry, no directory from startDir
\* up to it has one, and the directories looked at are startDir, its
\* parent and so on up to the returned one and none above it.
NearestRootWins ==
  gitPc = "returned" =>
    LET r == gitResult.path
        steps == Len(startDir) - Len(r) + 1
    IN  /\ Len(r) <= Len(startDir)
        /\ r = SubSeq(startDir, 1, Len(r))
        /\ gitEntry[r] # "none"
        /\ \A n \in (Len(r) + 1)..Len(startDir) :
             gitEntry[SubSeq(startDir, 1, n)] = "none"
        /\ Len(examined) = steps
        /\ \A i \in 1..steps : examined[i] = Ancestor(startDir, i)

\* the search started two levels below the directory it returned, and a
\* directory above that one has a `.git` entry too
NearestRootWitness ==
  /\ gitPc = "returned"
  /\ Len(startDir) = Len(gitResult.path) + 2
  /\ \E n \in 0..(Len(gitResult.path) - 1) :
       gitEntry[SubSeq(startDir, 1, n)] # "none"

\* ------------------------------------------------------------------------
\* C11
\* ------------------------------------------------------------------------
\* neither dir nor any directory above it up to the root has a `.git` entry
NoMarkerUpFrom(dir) ==
  \A n \in 0..Len(dir) : gitEntry[SubSeq(dir, 1, n)] = "none"

\* the search goes up one directory with each marker check, makes no more
\* checks than there are directories from startDir to the root, returns no
\* directory and throws nothing but RootNotFound
RootSearchBounded ==
  (gitPc # "idle" /\ NoMarkerUpFrom(startDir)) =>
    /\ gitPc # "returned"
    /\ Len(examined) <= Len(startDir) + 1
    /\ gitPc = "searching" => Len(examined) + Len(currentDir) = Len(startDir)
    /\ gitPc = "thrown" =>
         gitResult = Error(<<"Could not find git repository root">>)

\* C11. Root search termination: a search started where neither the start
\* directory nor any ancestor has the marker ends with the RootNotFound
\* error, after no more marker checks than there are directories on the
\* path from the start directory to the filesystem root.
RootSearchTerminates ==
  /\ []RootSearchBounded
  /\ (gitPc = "searching" /\ NoMarkerUpFrom(startDir)) ~> (gitPc = "thrown")

\* the search started at the deepest directory of an unmarked hierarchy has
\* thrown after looking at every directory up to the root
RootSearchWitness ==
  /\ gitPc = "thrown"
  /\ Len(startDir) = MaxDepth
  /\ Len(examined) = MaxDepth + 1
  /\ examined[Len(examined)] = <<>>

\* ------------------------------------------------------------------------
\* C13
\* ------------------------------------------------------------------------
\* C13. Default config file name: findConfigFile returns the path of the
\* file named `.je.jsonc` in the git root when that file exists and fails
\* with ConfigFileNotFound when it does not.
DefaultFileIsJeJsonc ==
  (locPc \in {"returned", "thrown"} /\ gitPc = "returned") =>
    IF gitResult.path \in disk.jeJsonc
    THEN /\ locPc = "returned"
         /\ locResult = [kind |-> "path", path |-> Append(gitResult.path, ".je.jsonc")]
    ELSE /\ locPc = "thrown"
         /\ locResult.kind = "error"

\* ------------------------------------------------------------------------
\* C14
\* ------------------------------------------------------------------------
\* C14. Locate-stage errors carry context: when findGitRoot fails,
\* findConfigFile fails with "Failed to locate config file: " followed by
\* the message of RootNotFound; when the root is found and the file it
\* looks for is not there, it fails with the same prefix followed by the
\* message of ConfigFileNotFound; its result is then an error, not a path,
\* and it fails in no other case.
LocateErrorsCarryContext ==
  /\ locPc = "thrown" =>
       /\ gitPc \in {"returned", "thrown"}
       /\ gitPc = "thrown" =>
            locResult = Error(<<"Failed to locate config file: ",
                                "Could not find git repository root">>)
       /\ gitPc = "returned" =>
            /\ locResult = Error(<<"Failed to locate config file: ",
                 "Could not find env.jsonc config file in git root directory">>)
            /\ ~exists(Append(gitResult.path, "env.jsonc"))
  /\ (locPc \in {"checking", "returned", "thrown"} /\ gitPc = "thrown") =>
       locPc = "thrown"
  /\ locPc = "returned" => locResult.kind = "path" /\ exists(locResult.path)

\* findConfigFile has thrown after findGitRoot went up to the root in vain
LocateContextWitness ==
  /\ locPc = "thrown"
  /\ gitPc = "thrown"
  /\ Len(cwd) = MaxLocateDepth
  /\ disk.envJsonc # {}

\* ------------------------------------------------------------------------
\* C15
\* ------------------------------------------------------------------------
\* C15. Load failures carry the cause: when the file cannot be read or is
\* not valid JSONC, loadConfig fails with the message "Failed to load or
\* parse config file: " followed by the message of the cause and yields no
\* document, and buildEnv fails with that error without reaching the
\* checks of the base and environment sections.
LoadFailureCarriesCause ==
  (file.kind # "document" /\ pc \notin {"idle", "loading"}) =>
    /\ pc = "thrown"
    /\ result.kind = "error"
    /\ result.message =
         <<"Failed to load or parse config file: ">> \o
           (IF file = UnreadableFile THEN <<"No such file or directory">>
                                     ELSE <<"Unexpected token">>)
    /\ result # MissingBaseSection
    /\ result # MissingEnvironmentSection(environment)
    /\ config = <<>>
    /\ envVars = <<>>

\* buildEnv has thrown on a file that is not valid JSONC
LoadFailureWitness ==
  /\ file = InvalidFile
  /\ pc = "thrown"
  /\ reads = <<CustomPath>>

\* ------------------------------------------------------------------------
\* C12
\* ------------------------------------------------------------------------
\* C12. Explicit path bypasses discovery: in a run whose file option is a
\* string, no step of findGitRoot or findConfigFile is taken, no file
\* other than the one at that path is read, that file is read when the run
\* is not a help run, and the run fails with neither RootNotFound nor
\* ConfigFileNotFound.
ExplicitPathBypassesDiscovery ==
  (cliPc # "idle" /\ args.file.kind = "string") =>
    /\ NoDiscovery
    /\ reads \in {<<>>, << <<args.file.text>> >>}
    /\ (CliFinished /\ ~args.help) => reads = << <<args.file.text>> >>
    /\ NoLocateFailure

\* C12 (amended). The same in a run whose file option is a non-empty
\* string.
NonEmptyPathBypassesDiscovery ==
  (cliPc # "idle" /\ args.file.kind = "string" /\ args.file.text # "") =>
    /\ NoDiscovery
    /\ reads \in {<<>>, << <<args.file.text>> >>}
    /\ (CliFinished /\ ~args.help) => reads = << <<args.file.text>> >>
    /\ NoLocateFailure

\* a run with an explicit path has written its text outside any git
\* repository, where a config file of the default name lies
ExplicitPathWitness ==
  /\ cliPc = "done"
  /\ args.file = [kind |-> "string", text |-> "custom.jsonc"]
  /\ \A dir \in DOMAIN gitEntry : gitEntry[dir] = "none"
  /\ disk.envJsonc # {}
  /\ reads = << <<"custom.jsonc">> >>
  /\ Len(stdout) = 1
  /\ stdout[1] # HelpText

\* ------------------------------------------------------------------------
\* C16
\* ------------------------------------------------------------------------
\* C16. One layer of stage context on every failure: the error that
\* reaches the caller has exactly one layer of context in its message.
OneLayerOnEveryFailure ==
  caught.kind = "error" => Layers(caught.message) = 1

\* C16 (amended). RootNotFound, ConfigFileNotFound and ConfigParseError
\* reach the caller as one error with exactly one layer of context in front
\* of the message of the cause; MissingBaseSection and
\* MissingEnvironmentSection reach it as one error with their own message
\* and no layer of context; no other error reaches the caller.
LayersByFailureKind ==
  caught.kind = "error" =>
    LET m == caught.message
    IN  /\ stderr = << <<"Error: ">> \o m >>
        /\ \/ /\ m = <<"Failed to locate config file: ",
                       "Could not find git repository root">>
              /\ gitPc = "thrown"
           \/ /\ m = <<"Failed to locate config file: ",
                       "Could not find env.jsonc config file in git root directory">>
              /\ gitPc = "returned"
              /\ locPc = "thrown"
           \/ /\ m \in {<<"Failed to load or parse config file: ",
                          "No such file or directory">>,
                        <<"Failed to load or parse config file: ",
                          "Unexpected token">>}
              /\ pc = "thrown"
              /\ config = <<>>
           \/ /\ m = <<"Config file must contain a 'base' section">>
              /\ Layers(m) = 0
              /\ ~HasSection("base")
           \/ /\ m = <<"Config file does not contain a '", environment, "' section">>
              /\ Layers(m) = 0
              /\ HasSection("base")
              /\ ~HasSection(environment)

\* the run has failed with MissingEnvironmentSection, which has no layer
LayersWitness ==
  /\ cliPc = "exited"
  /\ args.staging
  /\ caught = Error(<<"Config file does not contain a '", "staging", "' section">>)
  /\ Layers(caught.message) = 0

\* ------------------------------------------------------------------------
\* C17
\* ------------------------------------------------------------------------
\* C17. No partial output: in every run, standard output has received
\* nothing or, once and after every stage has succeeded, the whole
\* rendered text of the merged environment; when a stage has failed and
\* the run is over, nothing is on standard output, the one message
\* "Error: <message>" is on standard error and the exit status is 1.
NoPartialOutput ==
  /\ \/ stdout = <<>>
     \/ /\ Len(stdout) = 1
        /\ cliPc = "done"
        /\ locPc \in {"idle", "returned"}
        /\ pc = "returned"
        /\ stdout[1] = result.text
        /\ IsJoinedLines(stdout[1], EnvLines)
  /\ (CliFinished /\ (locPc = "thrown" \/ pc = "thrown")) =>
       /\ stdout = <<>>
       /\ caught.kind = "error"
       /\ stderr = << <<"Error: ">> \o caught.message >>
       /\ exitCode = 1
       /\ cliPc = "exited"

\* C17 (amended). The same in every run without the help flag; in the
\* runs that succeed nothing is on standard error and no exit status is
\* set.
NoPartialOutputWithoutHelp ==
  ~args.help =>
    /\ \/ stdout = <<>>
       \/ /\ Len(stdout) = 1
          /\ cliPc = "done"
          /\ locPc \in {"idle", "returned"}
          /\ pc = "returned"
          /\ stdout[1] = result.text
          /\ IsJoinedLines(stdout[1], EnvLines)
    /\ (CliFinished /\ (locPc = "thrown" \/ pc = "thrown")) =>
         /\ stdout = <<>>
         /\ caught.kind = "error"
         /\ stderr = << <<"Error: ">> \o caught.message >>
         /\ exitCode = 1
         /\ cliPc = "exited"
    /\ cliPc = "exited" => (locPc = "thrown" \/ pc = "thrown")
    /\ cliPc # "exited" => (stderr = <<>> /\ exitCode = -1)
    /\ cliPc = "done" => stdout # <<>>

\* a run has failed at the last stage, the check of the environment
\* section, after the default file was located and loaded
NoPartialOutputWitness ==
  /\ ~args.help
  /\ cliPc = "exited"
  /\ locPc = "returned"
  /\ pc = "thrown"
  /\ HasSection("base")
  /\ stdout = <<>>
  /\ exitCode = 1

\* ------------------------------------------------------------------------
\* C18
\* ------------------------------------------------------------------------
\* C18. Environment selection by flags: the name buildEnv is called with
\* is production if the production flag is set, else staging if the
\* staging flag is set, else development, whatever the development flag.
SelectionByFlags ==
  pc # "idle" =>
    /\ args.production => environment = "production"
    /\ (~args.production /\ args.staging) => environment = "staging"
    /\ (~args.production /\ ~args.staging) => environment = "development"
    /\ environment \in {"production", "staging", "development"}

\* the production section was built in a run with the development, staging
\* and production flags
SelectionWitness ==
  /\ args.development /\ args.staging /\ args.production
  /\ cliPc = "done"
  /\ environment = "production"
  /\ HasKey(envVars, <<"B">>)
  /\ ValueOf(envVars, <<"B">>) = <<"p">>

\* ------------------------------------------------------------------------
\* C19
\* ------------------------------------------------------------------------
\* C19. Any section name selects: when the file has a base section and
\* the name asked for is a section of the file, buildEnv returns a text,
\* the merged environment has the keys of both sections with the value of
\* the named section where it has the key and of base elsewhere, and the
\* text is its lines; asked for base, the merged environment is the base
\* set.
AnySectionSelects ==
  (Finished /\ HasSection("base") /\ HasSection(environment)) =>
    LET B == WrittenSection("base")
        E == WrittenSection(environment)
    IN  /\ pc = "returned"
        /\ result.kind = "text"
        /\ KeysOf(envVars) = KeysOf(B) \cup KeysOf(E)
        /\ \A i, j \in 1..Len(envVars) : envVars[i][1] = envVars[j][1] => i = j
        /\ \A k \in KeysOf(E) : ValueOf(envVars, k) = ValueOf(E, k)
        /\ \A k \in KeysOf(B) \ KeysOf(E) : ValueOf(envVars, k) = ValueOf(B, k)
        /\ \E f \in Orderings(Len(envVars)) :
             IsJoinedLines(result.text,
               [i \in 1..Len(envVars) |->
                  KeyValueLine(envVars[f[i]][1], envVars[f[i]][2])])
        /\ environment = "base" =>
             {envVars[i] : i \in 1..Len(envVars)} = {B[i] : i \in 1..Len(B)}

\* the section qa, which changes a variable of base, was selected
AnySectionWitness ==
  /\ pc = "returned"
  /\ environment = "qa"
  /\ HasSection("base")
  /\ HasSection("qa")
  /\ \E k \in KeysOf(WrittenSection("base")) \cap KeysOf(WrittenSection("qa")) :
       /\ ValueOf(WrittenSection("base"), k) # ValueOf(WrittenSection("qa"), k)
       /\ ValueOf(envVars, k) = ValueOf(WrittenSection("qa"), k)

\* ------------------------------------------------------------------------
\* C20
\* ------------------------------------------------------------------------
\* C20. The environment check looks only at sections written in the
\* document: when the file has a base section and the name asked for is no
\* section key of the file, buildEnv throws, nothing is merged and no text
\* is returned.
CheckLooksAtWrittenSections ==
  (Finished /\ HasSection("base") /\ environment \notin DOMAIN file.sections) =>
    /\ pc = "thrown"
    /\ result.kind = "error"
    /\ envVars = <<>>

\* ------------------------------------------------------------------------
\* C21
\* ------------------------------------------------------------------------
\* where the stages of a run stand: nothing was read before a path was
\* there, nothing follows a stage that failed
StagesInOrder ==
  /\ Len(reads) <= 1
  /\ reads # <<>> =>
       /\ configPath # <<>>
       /\ reads = <<configPath>>
       /\ locPc \in {"idle", "returned"}
       /\ pc \in {"loaded", "returned", "thrown"}
  /\ locPc \in {"root", "checking", "thrown"} => (pc = "idle" /\ reads = <<>>)
  /\ (args.help /\ cliPc # "idle") => reads = <<>>
  /\ pc \in {"loading", "loaded", "thrown"} => envVars = <<>>
  /\ (pc = "thrown" /\ file.kind = "document" /\ reads # <<>> /\ FileAt(configPath) = file
        /\ ~HasSection("base")) => result = MissingBaseSection
  /\ pc = "returned" =>
       /\ HasSection("base")
       /\ HasSection(environment)
       /\ IsJoinedLines(result.text, EnvLines)

\* one step of a run: a read is the first one and is made by the load
\* stage on the path it was given, the locate stage moves only before the
\* load stage starts, and the stages of buildEnv follow each other
StageStep ==
  /\ ~CliFinished
  /\ reads' # reads =>
       /\ pc = "loading"
       /\ reads = <<>>
       /\ reads' = <<configPath>>
  /\ locPc' # locPc => (pc = "idle" /\ pc' = "idle")
  /\ pc' # pc =>
       <<pc, pc'>> \in {<<"idle", "loading">>, <<"loading", "loaded">>,
                        <<"loading", "thrown">>, <<"loaded", "returned">>,
                        <<"loaded", "thrown">>}
  /\ (locPc = "thrown" \/ pc = "thrown") => cliPc' = "exited"

\* C21. Stage order and single read: in every run the stages happen in the
\* order locate (only without an explicit path), load, validate base,
\* validate environment, merge, render; the file is read at most once and
\* only after a path is there, no stage runs after a stage that failed,
\* and a help run or a run whose locate failed reads no file.
StageOrderSingleRead ==
  /\ []StagesInOrder
  /\ [][StageStep]_vars

\* a run that located the default file has read it once and written its
\* text
StageOrderWitness ==
  /\ cliPc = "done"
  /\ locPc = "returned"
  /\ examined # <<>>
  /\ reads = << Append(gitResult.path, "env.jsonc") >>
  /\ Len(stdout) = 1

\* ------------------------------------------------------------------------
\* C22
\* ------------------------------------------------------------------------
\* the sections of the parsed document are the sections the file holds
DocumentAsParsed ==
  pc \in {"loaded", "returned"} =>
    /\ DOMAIN config = DOMAIN file.sections
    /\ \A name \in DOMAIN config : config[name] = file.sections[name]

\* a key of both sections has the string of the environment section, all
\* of it and nothing else
WholeStringReplacement ==
  (pc = "returned" /\ HasSection(environment)) =>
    \A k \in KeysOf(WrittenSection("base")) \cap KeysOf(WrittenSection(environment)) :
      LET b == ValueOf(WrittenSection("base"), k)
          e == ValueOf(WrittenSection(environment), k)
          m == ValueOf(envVars, k)
      IN  /\ m = e
          /\ Len(m) = Len(e)
          /\ e # b => m \notin {b, b \o e, e \o b}

\* C22. Merge is non-destructive and non-recursive: after buildEnv has
\* merged, the base set and the selected set of the parsed document hold
\* the keys and values they held before, and a key of both has the string
\* of the environment section as a whole.
MergeNonDestructive ==
  /\ []DocumentAsParsed
  /\ []WholeStringReplacement
  /\ [][pc = "loaded" => config' = config]_vars

\* buildEnv has merged a section that changes a variable of base
MergeNonDestructiveWitness ==
  /\ pc = "returned"
  /\ environment = "production"
  /\ HasSection("production")
  /\ \E k \in KeysOf(WrittenSection("base")) :
       /\ HasKey(WrittenSection("production"), k)
       /\ ValueOf(WrittenSection("base"), k) # ValueOf(envVars, k)
       /\ ValueOf(Get(config, "base").entries, k) = ValueOf(WrittenSection("base"), k)

\* ------------------------------------------------------------------------
\* C23
\* ------------------------------------------------------------------------
\* C23. The marker must be a directory: findGitRoot returns a directory
\* only if its `.git` entry is a directory; a directory whose `.git` entry
\* is a regular file is passed over and the search goes on upward.
MarkerIsDirectory ==
  /\ gitPc = "returned" => gitEntry[gitResult.path] = "dir"
  /\ (examined # <<>> /\ gitEntry[examined[Len(examined)]] = "file") =>
       gitPc # "returned"

\* ------------------------------------------------------------------------
\* C24
\* ------------------------------------------------------------------------
\* the variable names written in that section of the file, none if the
\* section is missing or no mapping
WrittenKeys(name) ==
  IF HasSection(name) /\ file.sections[name].kind = "object"
  THEN KeysOf(file.sections[name].entries)
  ELSE {}

\* C24. Keys are never silently corrupted: for every valid document, also
\* one whose base or selected section is a string, an array, a number or
\* a boolean, buildEnv fails or returns a text each of whose keys is a
\* variable name written in the base section or in the selected section.
KeysNeverCorrupted ==
  pc = "returned" =>
    /\ KeysOf(envVars) \subseteq WrittenKeys("base") \cup WrittenKeys(environment)
    /\ \E f \in Orderings(Len(envVars)) :
         IsJoinedLines(result.text,
           [i \in 1..Len(envVars) |->
              KeyValueLine(envVars[f[i]][1], envVars[f[i]][2])])

\* ------------------------------------------------------------------------
\* C25
\* ------------------------------------------------------------------------
\* a run with the help flag that has started is over: the help text and
\* nothing else was written, nothing was located, read, built or caught
HelpOnly ==
  (args.help /\ cliPc # "idle") =>
    /\ cliPc = "done"
    /\ stdout = <<HelpText>>
    /\ stderr = <<>>
    /\ exitCode # 1
    /\ caught = NoResult
    /\ reads = <<>>
    /\ examined = <<>>
    /\ locPc = "idle"
    /\ gitPc = "idle"
    /\ pc = "idle"
    /\ configPath = <<>>

\* C25. Help short-circuits the run: with the help flag, whatever the
\* other flags and the file option, the run writes the help text and
\* returns in its first step, without locating a root, reading a file,
\* writing environment text or exiting with status 1.
HelpShortCircuits ==
  /\ []HelpOnly
  /\ [][args.help => (cliPc = "idle" /\ cliPc' = "done")]_vars

\* a help run with the production flag and the path of a file that does
\* not exist has returned
HelpWitness ==
  /\ args.help
  /\ args.production
  /\ args.file = [kind |-> "string", text |-> "custom.jsonc"]
  /\ ~disk.custom
  /\ cliPc = "done"

\* ------------------------------------------------------------------------
\* C26
\* ------------------------------------------------------------------------
\* C26. Output order: for variable names that are not integer-like, the
\* lines of the text are those of the base keys in the order of the base
\* section, each with the value of the environment section where it has
\* the key, and then those of the keys only the environment section has,
\* in the order of that section.
OutputOrder ==
  (pc = "returned"
     /\ \A k \in KeysOf(WrittenSection("base")) \cup KeysOf(WrittenSection(environment)) :
          ~IsArrayIndex(k)) =>
    LET B == WrittenSection("base")
        E == WrittenSection(environment)
        OnlyInE(e) == ~HasKey(B, e[1])
        order == B \o SelectSeq(E, OnlyInE)
        line(e) == KeyValueLine(e[1], IF HasKey(E, e[1]) THEN ValueOf(E, e[1]) ELSE e[2])
    IN  IsJoinedLines(result.text, [i \in 1..Len(order) |-> line(order[i])])

\* the section lists a key of its own first and then the first key of
\* base with another value
OutputOrderWitness ==
  /\ pc = "returned"
  /\ environment = "production"
  /\ LET B == WrittenSection("base")
         E == WrittenSection("production")
     IN  /\ Len(B) = 2
         /\ Len(E) = 2
         /\ ~HasKey(B, E[1][1])
         /\ E[2][1] = B[1][1]
         /\ E[2][2] # B[1][2]
         /\ envVars = <<E[2], B[2], E[1]>>

\* ------------------------------------------------------------------------
\* C27
\* ------------------------------------------------------------------------
\* the text without the backslash in front of each escaped character
RECURSIVE Unescape(_)
Unescape(t) ==
  IF t = <<>> THEN <<>>
  ELSE IF t[1] = BS /\ Len(t) >= 2
  THEN <<t[2]>> \o Unescape(SubSeq(t, 3, Len(t)))
  ELSE <<t[1]>> \o Unescape(Tail(t))

\* an unquoted rendering as it is, a quoted one without its two quotes and
\* unescaped
Recover(r) ==
  IF Len(r) >= 2 /\ r[1] = DQ /\ r[Len(r)] = DQ
  THEN Unescape(SubSeq(r, 2, Len(r) - 1))
  ELSE r

\* the values of at most two characters
ShortValues == SeqsUpTo(Alphabet, 2)

\* C27. Escaping is reversible: the value is recovered from its rendering
\* by leaving an unquoted rendering as it is and by removing the quotes
\* and the escaping backslashes of a quoted one, and no other value has
\* the same rendering.
EscapingReversible ==
  escPc = "returned" =>
    /\ Recover(rendered) = value
    /\ \A other \in ShortValues : escapeEnvValue(other) = rendered => other = value

\* a value with a backslash and a double quote has come back
EscapingReversibleWitness ==
  /\ escPc = "returned"
  /\ value = <<BS, DQ, "a">>
  /\ rendered = <<DQ, BS, BS, BS, DQ, "a", DQ>>

\* ------------------------------------------------------------------------
\* C28
\* ------------------------------------------------------------------------
\* the place of the first double quote at or after place i that no
\* backslash escapes, 0 if there is none
RECURSIVE ClosingQuote(_, _)
ClosingQuote(r, i) ==
  IF i > Len(r) THEN 0
  ELSE IF r[i] = BS THEN ClosingQuote(r, i + 2)
  ELSE IF r[i] = DQ THEN i
  ELSE ClosingQuote(r, i + 1)

\* C28. A quoted rendering is well formed: read from left to right with
\* the backslash as escape character, the first double quote after the
\* opening one that is not escaped is the last character of the
\* rendering; an unquoted rendering has no whitespace, quote, backslash,
\* `$`, `&` or `#`.
QuotedWellFormed ==
  escPc = "returned" =>
    IF rendered # value
    THEN /\ Len(rendered) >= 2
         /\ rendered[1] = DQ
         /\ ClosingQuote(rendered, 2) = Len(rendered)
    ELSE \A i \in 1..Len(rendered) :
           rendered[i] \notin {SP, TAB, NL, CR, DQ, SQ, BS, "$", "&", "#"}

\* a value with two double quotes that ends in a backslash has come back
QuotedWellFormedWitness ==
  /\ escPc = "returned"
  /\ value = <<DQ, DQ, BS>>
  /\ rendered # value

\* ------------------------------------------------------------------------
\* C29
\* ------------------------------------------------------------------------
\* some directory from the working directory upward has a `.git` entry
SomeMarked == \E n \in 0..Len(cwd) : gitEntry[SubSeq(cwd, 1, n)] # "none"

\* the deepest of them
NearestMarked ==
  LET n == CHOOSE m \in 0..Len(cwd) :
             /\ gitEntry[SubSeq(cwd, 1, m)] # "none"
             /\ \A k \in (m + 1)..Len(cwd) : gitEntry[SubSeq(cwd, 1, k)] = "none"
  IN  SubSeq(cwd, 1, n)

\* C29. Only the nearest root is searched for the config file: no
\* directory above the nearest marked directory is examined, and when
\* that directory does not hold the config file findConfigFile fails with
\* ConfigFileNotFound, whatever a marked directory above it holds; when it
\* does, the path of the file in it is returned.
OnlyNearestRoot ==
  (locPc # "idle" /\ SomeMarked) =>
    /\ \A i \in 1..Len(examined) : Len(examined[i]) >= Len(NearestMarked)
    /\ locPc \in {"checking", "returned", "thrown"} => gitResult.path = NearestMarked
    /\ (locPc \in {"returned", "thrown"} /\ NearestMarked \notin disk.envJsonc) =>
         /\ locPc = "thrown"
         /\ locResult = Error(<<"Failed to locate config file: ",
              "Could not find env.jsonc config file in git root directory">>)
    /\ (locPc \in {"returned", "thrown"} /\ NearestMarked \in disk.envJsonc) =>
         /\ locPc = "returned"
         /\ locResult = [kind |-> "path", path |-> Append(NearestMarked, "env.jsonc")]

\* findConfigFile has failed in a marked directory without the file, below
\* a marked directory that holds the file
OnlyNearestRootWitness ==
  /\ locPc = "thrown"
  /\ Len(cwd) = MaxLocateDepth
  /\ NearestMarked = SubSeq(cwd, 1, Len(cwd) - 1)
  /\ gitEntry[<<>>] = "dir"
  /\ <<>> \in disk.envJsonc
  /\ NearestMarked \notin disk.envJsonc

\* ------------------------------------------------------------------------
\* C30
\* ------------------------------------------------------------------------
\* C30. A present but empty section is not a missing section: an empty
\* base section passes the base check and an empty selected section the
\* environment check; with an empty selected section the text is the
\* rendering of base alone, and with both empty buildEnv returns the
\* empty string.
EmptySectionIsPresent ==
  LET B == WrittenSection("base")
      E == WrittenSection(environment)
  IN  /\ (Finished /\ HasSection("base") /\ B = <<>>) => result # MissingBaseSection
      /\ (Finished /\ HasSection("base") /\ HasSection(environment) /\ E = <<>>) =>
           /\ pc = "returned"
           /\ result.kind = "text"
           /\ envVars = B
           /\ IsJoinedLines(result.text,
                [i \in 1..Len(B) |-> KeyValueLine(B[i][1], B[i][2])])
      /\ (Finished /\ HasSection("base") /\ HasSection(environment)
            /\ B = <<>> /\ E = <<>>) =>
           /\ pc = "returned"
           /\ result = [kind |-> "text", text |-> <<>>]

\* buildEnv has returned the rendering of a base of two variables for an
\* empty production section
EmptySectionWitness ==
  /\ pc = "returned"
  /\ environment = "production"
  /\ HasSection("production")
  /\ WrittenSection("production") = <<>>
  /\ Len(WrittenSection("base")) = 2
  /\ result.text # <<>>

====
